---- MODULE Spec2Model ----
(***************************************************************************)
(* MM Purchasing Remediator (SAP Note 1803189), src/app/main.py.           *)
(*                                                                         *)
(* Texts are strings; a character is a string of length 1.  The five       *)
(* compiled patterns are modelled by what Python's backtracking matcher    *)
(* returns for them at a given start position, and finditer by the         *)
(* left-to-right, non-overlapping iteration over those matches.  Offsets   *)
(* inside the model are 1-based; the spans stored in the records are the   *)
(* 0-based half-open offsets the program stores.                           *)
(***************************************************************************)
EXTENDS Integers, Sequences, FiniteSets, TLC

VARIABLES tables, entry, units, results, pc, src, issues

vars == <<tables, entry, units, results, pc, src, issues>>

\* Python's None (a null code, suggested_fields, a pattern that was not built).
NULL == "<None>"

\* Result of trying a pattern at a position where it does not match.
NoMatch == [start |-> 0, end |-> 0, stmt |-> "", name |-> ""]

-----------------------------------------------------------------------------
(* Reference mappings                                                      *)

TXN_MAP ==
    [ME21 |-> <<"ME21N">>, ME22 |-> <<"ME22N">>, ME23 |-> <<"ME23N">>,
     ME24 |-> <<"ME21N", "ME22N">>, ME25 |-> <<"ME21N">>,
     ME27 |-> <<"ME21N">>, ME28 |-> <<"ME29N">>,
     ME51 |-> <<"ME51N">>, ME52 |-> <<"ME52N">>, ME53 |-> <<"ME53N">>,
     ME54 |-> <<"ME54N">>, ME59 |-> <<"ME59N">>]

BAPI_MAP ==
    [BAPI_PO_CREATE |->
        [new |-> "BAPI_PO_CREATE1", note |-> "Use Enjoy PO BAPI."],
     BAPI_PO_GETDETAIL |->
        [new |-> "BAPI_PO_GETDETAIL1", note |-> "Use Enjoy PO BAPI."],
     BAPI_REQUISITION_CREATE |->
        [new |-> "BAPI_PR_CREATE", note |-> "Use PR Enjoy BAPI."],
     BAPI_REQUISITION_CHANGE |->
        [new |-> "BAPI_PR_CHANGE", note |-> "Use PR Enjoy BAPI."],
     BAPI_REQUISITION_DELETE |->
        [new |-> "BAPI_PR_CHANGE", note |-> "Delete via CHANGE in Enjoy BAPI."],
     BAPI_REQUISITION_GETDETAIL |->
        [new |-> "BAPI_PR_GETDETAIL", note |-> "Use PR Enjoy BAPI."]]

IDOC_MAP ==
    [IDOC_INPUT_PORDCR |->
        [new |-> "IDOC_INPUT_PORDCR1", note |-> "Use new PO IDoc FM (BUS2012)."],
     IDOC_INPUT_PORDCH |->
        [new |-> "IDOC_INPUT_PORDCH", note |-> "Ensure BUS2012 version is used."],
     IDOC_INPUT_PREQCR |->
        [new |-> "IDOC_INPUT_PREQCR1", note |-> "Use new PR IDoc FM (BUS2105)."]]

ARCHIVE_REPORT_MAP ==
    [RM06EV47 |-> [new |-> "RM06EV70", obj |-> "MM_EKKO"],
     RM06EW47 |-> [new |-> "RM06EW70", obj |-> "MM_EKKO"],
     RM06ED47 |-> [new |-> "RM06ED70", obj |-> "MM_EKKO"],
     RM06BV47 |-> [new |-> "RM06BV70", obj |-> "MM_EBAN"],
     RM06BW47 |-> [new |-> "RM06BW70", obj |-> "MM_EBAN"],
     RM06BD47 |-> [new |-> "RM06BD70", obj |-> "MM_EBAN"],
     RM06IW47 |-> [new |-> "RM06IW70", obj |-> "MM_EINA"],
     RM06ID47 |-> [new |-> "RM06ID70", obj |-> "MM_EINA"]]

ARCHIVE_30_PREFIXES == <<"RM06E", "RM06B", "RM06I">>

READ_REPORTS == {"RM06ER30", "RM06BR30", "RM06IR30"}

\* The module-level tables as the program has them after import.
SourceTables ==
    [TXN_MAP |-> TXN_MAP, BAPI_MAP |-> BAPI_MAP, IDOC_MAP |-> IDOC_MAP,
     ARCHIVE_REPORT_MAP |-> ARCHIVE_REPORT_MAP,
     ARCHIVE_30_PREFIXES |-> ARCHIVE_30_PREFIXES,
     READ_REPORTS |-> READ_REPORTS]

\* A dict with no entries.
EmptyMap == [k \in {} |-> <<>>]

-----------------------------------------------------------------------------
(* Characters and the character classes of the re module                   *)

LowerLetters == "abcdefghijklmnopqrstuvwxyz"
UpperLetters == "ABCDEFGHIJKLMNOPQRSTUVWXYZ"
Digits == "0123456789"

CharsOf(s) == {SubSeq(s, i, i) : i \in 1..Len(s)}

\* str.upper() on one character.
UpperChar ==
    [c \in CharsOf(LowerLetters) |->
        LET i == CHOOSE j \in 1..26 : SubSeq(LowerLetters, j, j) = c
        IN  SubSeq(UpperLetters, i, i)]

RECURSIVE Upper(_)
\* str.upper(), character by character (the string is split in halves to keep
\* the evaluation shallow)
Upper(s) ==
    IF s = "" THEN ""
    ELSE IF Len(s) = 1
        THEN (IF s \in DOMAIN UpperChar THEN UpperChar[s] ELSE s)
    ELSE LET h == Len(s) \div 2
         IN  Upper(SubSeq(s, 1, h)) \o Upper(SubSeq(s, h + 1, Len(s)))

\* The character of t at the 1-based position i; "" outside the text.
Char(t, i) == IF i >= 1 /\ i <= Len(t) THEN SubSeq(t, i, i) ELSE ""

\* \s
IsSpace(c) == c \in {" ", "\t", "\n", "\r"}

\* The word characters \b is defined by.
IsWord(c) ==
    c \in CharsOf(LowerLetters) \cup CharsOf(UpperLetters)
            \cup CharsOf(Digits) \cup {"_"}

\* [A-Z] under re.IGNORECASE
IsLetter(c) == c \in CharsOf(LowerLetters) \cup CharsOf(UpperLetters)

\* ['"]
IsQuote(c) == c \in {"'", "\""}

\* \b at the position between t[i-1] and t[i]
WordBoundary(t, i) == IsWord(Char(t, i - 1)) # IsWord(Char(t, i))

\* A literal of the pattern matches t at position i, ignoring case.
MatchLit(t, i, lit) ==
    /\ i + Len(lit) - 1 <= Len(t)
    /\ Upper(SubSeq(t, i, i + Len(lit) - 1)) = Upper(lit)

RECURSIVE SkipSpaces(_, _)
\* \s* (greedy): the position after the run of whitespace that starts at i
SkipSpaces(t, i) ==
    IF IsSpace(Char(t, i)) THEN SkipSpaces(t, i + 1) ELSE i

RECURSIVE SkipLetters(_, _)
\* [A-Z]* (greedy)
SkipLetters(t, i) ==
    IF IsLetter(Char(t, i)) THEN SkipLetters(t, i + 1) ELSE i

\* The least element of a non-empty set of positions.
Least(ps) == CHOOSE p \in ps : \A q \in ps : p <= q

\* [^\.]*\. : the position after the first "." at or after i; 0 if none
SkipToDot(t, i) ==
    LET dots == {j \in i..Len(t) : Char(t, j) = "."}
    IN  IF dots = {} THEN 0 ELSE Least(dots) + 1

\* \s+ : the position after the whitespace run at i; 0 if there is none
Spaces1(t, i) == IF IsSpace(Char(t, i)) THEN SkipSpaces(t, i) ELSE 0

\* '|'.join(map(re.escape, names)): an empty collection gives the empty
\* pattern, which matches the empty string.
Alternation(names) == IF names = {} THEN {""} ELSE names

\* sorted(..., key=len, reverse=True): the alternative the matcher takes
\* among those that let the rest of the pattern match is the longest one.
LongestFirst(cands) ==
    CHOOSE n \in cands : \A m \in cands : Len(m) <= Len(n)

-----------------------------------------------------------------------------
(* The compiled patterns: the match that starts at position s of t, as a   *)
(* record of its span (1-based, end exclusive) and its named groups.       *)

\* TXN_NAMES, FUNC_NAMES, ARCH47_NAMES: the identifiers a pattern is built from
TXN_NAMES(tb) == DOMAIN tb.TXN_MAP
FUNC_NAMES(tb) == DOMAIN tb.BAPI_MAP \cup DOMAIN tb.IDOC_MAP
ARCH47_NAMES(tb) == DOMAIN tb.ARCHIVE_REPORT_MAP

\* (CALL\s+TRANSACTION|SUBMIT)\s+['"]?(name)['"]?\s*\.?
TXN_RE(names, t, s) ==
    LET c  == Spaces1(t, s + 4)
        kw == IF MatchLit(t, s, "CALL") /\ c # 0 /\ MatchLit(t, c, "TRANSACTION")
                THEN c + 11
                ELSE IF MatchLit(t, s, "SUBMIT") THEN s + 6 ELSE 0
        a  == IF kw = 0 THEN 0 ELSE Spaces1(t, kw)
        NamesAt(p) == {n \in Alternation(names) : MatchLit(t, p, n)}
        p  == IF IsQuote(Char(t, a)) /\ NamesAt(a + 1) # {} THEN a + 1 ELSE a
        n  == LongestFirst(NamesAt(p))
        q  == p + Len(n)
        q2 == IF IsQuote(Char(t, q)) THEN q + 1 ELSE q
        q3 == SkipSpaces(t, q2)
        e  == IF Char(t, q3) = "." THEN q3 + 1 ELSE q3
    IN  IF a = 0 \/ NamesAt(p) = {} THEN NoMatch
        ELSE [start |-> s, end |-> e, stmt |-> SubSeq(t, s, kw - 1),
              name |-> SubSeq(t, p, q - 1)]

\* CALL\s+FUNCTION\s+['"](name)['"][^\.]*\.
FUNC_RE(names, t, s) ==
    LET c  == Spaces1(t, s + 4)
        kw == IF MatchLit(t, s, "CALL") /\ c # 0 /\ MatchLit(t, c, "FUNCTION")
                THEN c + 8 ELSE 0
        a  == IF kw = 0 THEN 0 ELSE Spaces1(t, kw)
        p  == a + 1
        Ok(n) == /\ MatchLit(t, p, n)
                 /\ IsQuote(Char(t, p + Len(n)))
                 /\ SkipToDot(t, p + Len(n) + 1) # 0
        cands == {n \in Alternation(names) : Ok(n)}
        n  == LongestFirst(cands)
    IN  IF a = 0 \/ ~IsQuote(Char(t, a)) \/ cands = {} THEN NoMatch
        ELSE [start |-> s, end |-> SkipToDot(t, p + Len(n) + 1),
              stmt |-> SubSeq(t, s, kw - 1),
              name |-> SubSeq(t, p, p + Len(n) - 1)]

\* SUBMIT\s+(name)\b[^\.]*\.  (the shape of ARCH47_RE and READ_RE)
SubmitNameRE(names, t, s) ==
    LET a  == IF MatchLit(t, s, "SUBMIT") THEN Spaces1(t, s + 6) ELSE 0
        Ok(n) == /\ MatchLit(t, a, n)
                 /\ WordBoundary(t, a + Len(n))
                 /\ SkipToDot(t, a + Len(n)) # 0
        cands == {n \in Alternation(names) : Ok(n)}
        n  == LongestFirst(cands)
    IN  IF a = 0 \/ cands = {} THEN NoMatch
        ELSE [start |-> s, end |-> SkipToDot(t, a + Len(n)),
              stmt |-> SubSeq(t, s, s + 5),
              name |-> SubSeq(t, a, a + Len(n) - 1)]

\* SUBMIT\s+(ARCH47 name)\b[^\.]*\.
ARCH47_RE(names, t, s) == SubmitNameRE(names, t, s)

\* SUBMIT\s+((?:prefix)[A-Z]*30)\b[^\.]*\.  ; the prefixes are tried in list
\* order, they are not sorted.
ARCH30_RE(prefixes, t, s) ==
    LET a  == IF MatchLit(t, s, "SUBMIT") THEN Spaces1(t, s + 6) ELSE 0
        alts == IF prefixes = <<>> THEN <<"">> ELSE prefixes
        End(i) == SkipLetters(t, a + Len(alts[i])) + 2
        Ok(i) == /\ MatchLit(t, a, alts[i])
                 /\ MatchLit(t, End(i) - 2, "30")
                 /\ WordBoundary(t, End(i))
                 /\ SkipToDot(t, End(i)) # 0
        good == {i \in 1..Len(alts) : Ok(i)}
        i  == Least(good)
    IN  IF a = 0 \/ good = {} THEN NoMatch
        ELSE [start |-> s, end |-> SkipToDot(t, End(i)),
              stmt |-> SubSeq(t, s, s + 5),
              name |-> SubSeq(t, a, End(i) - 1)]

\* SUBMIT\s+(read report)\b[^\.]*\.
READ_RE(names, t, s) == SubmitNameRE(names, t, s)

RECURSIVE finditer(_, _)
\* pattern.finditer(txt): ms[s] is the match of the pattern at position s;
\* the matches are taken leftmost first and do not overlap.
finditer(ms, pos) ==
    LET found == {s \in pos..Len(ms) : ms[s] # NoMatch}
    IN  IF found = {} THEN <<>>
        ELSE <<ms[Least(found)]>> \o finditer(ms, ms[Least(found)].end)

\* m.span("full")
span(m) == <<m.start - 1, m.end - 1>>

-----------------------------------------------------------------------------
(* Helpers                                                                 *)

RECURSIVE join(_, _)
\* sep.join(parts)
join(sep, parts) ==
    IF parts = <<>> THEN ""
    ELSE IF Len(parts) = 1 THEN parts[1]
    ELSE parts[1] \o sep \o join(sep, Tail(parts))

\* up.startswith("SUBMIT")
startswith(s, prefix) == Len(s) >= Len(prefix) /\ SubSeq(s, 1, Len(prefix)) = prefix

\* _mk_suggested_statement without the join: only the first replacement of a
\* transaction is rendered.
_mk_suggested_statement_first(kind, old, news, stmt) ==
    IF kind = "txn" THEN
        IF startswith(Upper(stmt), "SUBMIT")
            THEN "SUBMIT " \o news[1] \o "."
            ELSE "CALL TRANSACTION '" \o news[1] \o "'."
    ELSE IF kind = "func" THEN "CALL FUNCTION '" \o news[1] \o "'."
    ELSE IF kind = "report" THEN "SUBMIT " \o news[1] \o "."
    ELSE ""

_mk_suggested_statement(kind, old, news, stmt) ==
    LET up == Upper(stmt)
    IN  IF kind = "txn" THEN
            IF Len(news) = 1 THEN
                IF startswith(up, "SUBMIT")
                    THEN "SUBMIT " \o news[1] \o "."
                    ELSE "CALL TRANSACTION '" \o news[1] \o "'."
            ELSE
                IF startswith(up, "SUBMIT")
                    THEN join(" or ", [i \in 1..Len(news) |->
                                         "SUBMIT " \o news[i] \o "."])
                    ELSE join(" or ", [i \in 1..Len(news) |->
                                         "CALL TRANSACTION '" \o news[i] \o "'."])
        ELSE IF kind = "func" THEN "CALL FUNCTION '" \o news[1] \o "'."
        ELSE IF kind = "report" THEN "SUBMIT " \o news[1] \o "."
        ELSE ""

\* _add_hit with hits.insert(0, meta) in place of hits.append(meta)
_add_hit_front(hits, sp, target_type, target_name, suggested_statement, note, ambiguous) ==
    LET meta == [table |-> "None",
                 target_type |-> target_type,
                 target_name |-> target_name,
                 start_char_in_unit |-> sp[1],
                 end_char_in_unit |-> sp[2],
                 used_fields |-> <<>>,
                 ambiguous |-> ambiguous,
                 suggested_statement |-> suggested_statement,
                 suggested_fields |-> NULL]
    IN  <<IF note = NULL \/ note = "" THEN meta ELSE meta @@ [note |-> note]>>
            \o hits

\* hits.append(meta); the note key is present only for a non-empty note
_add_hit(hits, sp, target_type, target_name, suggested_statement, note, ambiguous) ==
    LET meta == [table |-> "None",
                 target_type |-> target_type,
                 target_name |-> target_name,
                 start_char_in_unit |-> sp[1],
                 end_char_in_unit |-> sp[2],
                 used_fields |-> <<>>,
                 ambiguous |-> ambiguous,
                 suggested_statement |-> suggested_statement,
                 suggested_fields |-> NULL]
    IN  Append(hits, IF note = NULL \/ note = "" THEN meta
                     ELSE meta @@ [note |-> note])

-----------------------------------------------------------------------------
(* find_mm_purchasing_issues: the bodies of its five loops                 *)

\* 1) Transactions
TxnBody(tb, hits, m) ==
    LET name  == Upper(m.name)
        repls == IF name \in DOMAIN tb.TXN_MAP THEN tb.TXN_MAP[name] ELSE <<>>
        note  == IF name = "ME27" THEN "PO without material: create via ME21N."
                 ELSE IF name = "ME25"
                    THEN "ME25 functions available via ME21N (use Hold / Enjoy features)."
                 ELSE NULL
    IN  IF repls # <<>>
          THEN _add_hit(hits, span(m), "Transaction", name,
                        _mk_suggested_statement("txn", name, repls, m.stmt),
                        note, Len(repls) > 1)
          ELSE hits

\* The loop body of pass 2 without the old == new test of the IDoc branch.
FuncBodyNoVersionFlag(tb, hits, m) ==
    LET name == Upper(m.name)
        map  == IF name \in DOMAIN tb.BAPI_MAP THEN tb.BAPI_MAP ELSE tb.IDOC_MAP
    IN  IF name \in DOMAIN tb.BAPI_MAP \cup DOMAIN tb.IDOC_MAP
          THEN _add_hit(hits, span(m), "FunctionModule", name,
                        _mk_suggested_statement("func", name,
                            <<map[name].new>>, "CALL FUNCTION"),
                        map[name].note, FALSE)
          ELSE hits

\* 2) BAPIs & IDoc input FMs
FuncBody(tb, hits, m) ==
    LET name == Upper(m.name)
    IN  IF name \in DOMAIN tb.BAPI_MAP
          THEN _add_hit(hits, span(m), "FunctionModule", name,
                        _mk_suggested_statement("func", name,
                            <<tb.BAPI_MAP[name].new>>, "CALL FUNCTION"),
                        tb.BAPI_MAP[name].note, FALSE)
        ELSE IF name \in DOMAIN tb.IDOC_MAP
          THEN _add_hit(hits, span(m), "FunctionModule", name,
                        _mk_suggested_statement("func", name,
                            <<tb.IDOC_MAP[name].new>>, "CALL FUNCTION"),
                        tb.IDOC_MAP[name].note, tb.IDOC_MAP[name].new = name)
        ELSE hits

\* The loop body of pass 3 suggesting the matched report instead of info["new"].
Arch47BodyOldName(tb, hits, m) ==
    LET name == Upper(m.name)
    IN  IF name \in DOMAIN tb.ARCHIVE_REPORT_MAP
          THEN LET info == tb.ARCHIVE_REPORT_MAP[name]
               IN  _add_hit(hits, span(m), "Report", name,
                        _mk_suggested_statement("report", name, <<name>>, "SUBMIT"),
                        "Archiving Object " \o info.obj \o ": use *70 reports (EhP4+).",
                        FALSE)
          ELSE hits

\* 3) Archiving reports *47 -> *70
Arch47Body(tb, hits, m) ==
    LET name == Upper(m.name)
    IN  IF name \in DOMAIN tb.ARCHIVE_REPORT_MAP
          THEN LET info == tb.ARCHIVE_REPORT_MAP[name]
               IN  _add_hit(hits, span(m), "Report", name,
                        _mk_suggested_statement("report", name, <<info.new>>, "SUBMIT"),
                        "Archiving Object " \o info.obj \o ": use *70 reports (EhP4+).",
                        FALSE)
          ELSE hits

\* 4) Very old *30 archiving reports
Arch30Body(tb, hits, m) ==
    _add_hit(hits, span(m), "Report", Upper(m.name),
             "SUBMIT <corresponding RM06**70 report>.",
             "Move to RM06**70 reports (EhP4+).", TRUE)

\* 5) Read programs
ReadBody(tb, hits, m) ==
    _add_hit(hits, span(m), "Report", Upper(m.name),
             "Use transaction SARI for displaying archived MM Purchasing documents.",
             "Read programs still usable; consider using Archive Information System (SARI).",
             TRUE)

\* The matches of one pattern over the whole text, in finditer's order.
Matches(pass, tb, t) ==
    finditer([s \in 1..Len(t) |->
                CASE pass = "txn"    -> TXN_RE(TXN_NAMES(tb), t, s)
                  [] pass = "func"   -> FUNC_RE(FUNC_NAMES(tb), t, s)
                  [] pass = "arch47" -> ARCH47_RE(ARCH47_NAMES(tb), t, s)
                  [] pass = "arch30" -> ARCH30_RE(tb.ARCHIVE_30_PREFIXES, t, s)
                  [] pass = "read"   -> READ_RE(tb.READ_REPORTS, t, s)], 1)

RECURSIVE ForEach(_, _, _, _)
\* for m in <pattern>.finditer(txt): <body>
ForEach(pass, tb, hits, ms) ==
    IF ms = <<>> THEN hits
    ELSE ForEach(pass, tb,
                 CASE pass = "txn"    -> TxnBody(tb, hits, Head(ms))
                   [] pass = "func"   -> FuncBody(tb, hits, Head(ms))
                   [] pass = "arch47" -> Arch47Body(tb, hits, Head(ms))
                   [] pass = "arch30" -> Arch30Body(tb, hits, Head(ms))
                   [] pass = "read"   -> ReadBody(tb, hits, Head(ms)),
                 Tail(ms))

\* One of the five loops of find_mm_purchasing_issues, run on the list so far.
RunPass(pass, tb, hits, t) == ForEach(pass, tb, hits, Matches(pass, tb, t))

-----------------------------------------------------------------------------
(* Bounds and inputs                                                       *)

\* Concurrent callers (requests served by the worker threads, or direct
\* callers of find_mm_purchasing_issues).
NumRequests == 2

\* Units over all the requests of one behaviour.
MaxTotalUnits == 2

\* Statements in one sample program.
MaxStmts == 3

Requests == 1..NumRequests

\* Statements the sample programs are made of: one per kind of finding.
SampleStatements ==
    {"CALL TRANSACTION 'ME24'.", "CALL FUNCTION 'BAPI_PO_CREATE' EXPORTING a = b.",
     "SUBMIT RM06EV47.", "SUBMIT RM06ER30."}

RECURSIVE Programs(_)
\* The texts of at most n sample statements, separated by a blank.
Programs(n) ==
    IF n = 0 THEN {""}
    ELSE Programs(n - 1)
           \cup {st \o (IF p = "" THEN "" ELSE " " \o p) :
                    st \in SampleStatements,
                    p \in Programs(n - 1)}

\* Unit.code values of the concurrent workload.
SampleCodes ==
    {NULL, "", "CALL TRANSACTION 'ME24'.", "CALL FUNCTION 'IDOC_INPUT_PORDCH'.",
     "SUBMIT RM06ER30. SUBMIT RM06EV47."}

\* Call sites: keyword part, identifier, rest of the statement.
Heads ==
    {"CALL TRANSACTION '", "call  transaction \"", "SUBMIT ", "submit\n",
     "CALL FUNCTION '"}

Names ==
    DOMAIN TXN_MAP \cup DOMAIN BAPI_MAP \cup DOMAIN IDOC_MAP
        \cup DOMAIN ARCHIVE_REPORT_MAP \cup READ_REPORTS
        \cup {"me24", "Rm06bw47", "RM06E30", "RM06EV30", "ZMMREPORT",
              "BAPI_PO_CREATE1", "ME2"}

Tails ==
    {".", "'.", " .", "N'.", "N.", "' AND SKIP FIRST SCREEN.",
     "' EXPORTING a = b.", " WITH p = 1 AND RETURN.", ""}

CallSites == {h \o n \o tl : h \in Heads, n \in Names, tl \in Tails}

\* Variants of the tables in which one identifier collection has no entries.
TableVariants ==
    {SourceTables,
     [SourceTables EXCEPT !.TXN_MAP = EmptyMap],
     [SourceTables EXCEPT !.BAPI_MAP = EmptyMap, !.IDOC_MAP = EmptyMap],
     [SourceTables EXCEPT !.ARCHIVE_REPORT_MAP = EmptyMap],
     [SourceTables EXCEPT !.ARCHIVE_30_PREFIXES = <<>>],
     [SourceTables EXCEPT !.READ_REPORTS = {}]}

\* Texts scanned under the table variants.
VariantCodes ==
    {"", "CALL TRANSACTION 'ME21'.", "SUBMIT ME21.",
     "CALL FUNCTION 'BAPI_PO_CREATE' EXPORTING a = b.",
     "SUBMIT RM06EV47 AND RETURN.", "SUBMIT RM06EV30.", "SUBMIT RM06ER30.",
     "SUBMIT ZMMREPORT.", "SUBMIT ZOLD30 AND RETURN.", "SUBMIT 'X'."}

RECURSIVE Assign(_, _, _)
\* The units of request r when unit i of the workload goes to owner[i].
Assign(codes, owner, r) ==
    IF codes = <<>> THEN <<>>
    ELSE LET rest == Assign(Tail(codes), Tail(owner), r)
         IN  IF Head(owner) = r THEN <<Head(codes)>> \o rest ELSE rest

\* The ways to hand at most n units with codes of cs to the requests.
Workloads(cs, n) ==
    UNION {{[r \in Requests |-> Assign(codes, owner, r)] :
                codes \in [1..k -> cs], owner \in [1..k -> Requests]} :
           k \in 0..n}

-----------------------------------------------------------------------------
(* State machine                                                           *)

\* u.code or ""
CodeOrEmpty(code) == IF code = NULL \/ code = "" THEN "" ELSE code

\* txt == "" in place of not txt
FalsyEmptyOnly(txt) == txt = ""

\* not txt
Falsy(txt) == txt = NULL \/ txt = ""

\* The list of the caller's previous scan in place of a fresh list (a
\* mutable default argument).
IssuesLeftOver(r) == issues[r]

\* issues: List[dict] = []
IssuesAtEntry(r) == <<>>

InitRest ==
    /\ results = [r \in Requests |-> <<>>]
    /\ pc = [r \in Requests |-> "loop"]
    /\ src = [r \in Requests |-> ""]
    /\ issues = [r \in Requests |-> <<>>]

\* Concurrent requests over the sample programs.
Init ==
    /\ tables = SourceTables
    /\ entry = [r \in Requests |-> "remediate"]
    /\ units \in Workloads(SampleCodes, MaxTotalUnits)
    /\ InitRest

\* One caller scanning one call site or one sample program, through the
\* endpoint or directly.
InitCalls ==
    /\ tables = SourceTables
    /\ entry \in {[r \in Requests |-> IF r = 1 THEN e ELSE "remediate"] :
                    e \in {"remediate", "find"}}
    /\ units \in {[r \in Requests |-> IF r = 1 THEN <<c>> ELSE <<>>] :
                    c \in CallSites \cup Programs(MaxStmts) \cup {NULL}}
    /\ InitRest

\* One request scanning one text, the program built with a table variant.
InitTables ==
    /\ tables \in TableVariants
    /\ entry = [r \in Requests |-> "remediate"]
    /\ units \in {[r \in Requests |-> IF r = 1 THEN <<c>> ELSE <<>>] :
                    c \in VariantCodes \cup {NULL}}
    /\ InitRest

\* for u in units: src = u.code or ""; issues = find_mm_purchasing_issues(src)
\* up to the first loop of the scan; a direct caller passes its text as it is.
NextUnit(r) ==
    /\ pc[r] = "loop"
    /\ Len(results[r]) < Len(units[r])
    /\ LET code == units[r][Len(results[r]) + 1]
           txt  == IF entry[r] = "remediate" THEN CodeOrEmpty(code) ELSE code
       IN  /\ src' = [src EXCEPT ![r] = txt]
           /\ IF Falsy(txt)
                THEN /\ results' = [results EXCEPT ![r] = Append(@, <<>>)]
                     /\ UNCHANGED <<pc, issues>>
                ELSE /\ issues' = [issues EXCEPT ![r] = IssuesAtEntry(r)]
                     /\ pc' = [pc EXCEPT ![r] = "txn"]
                     /\ UNCHANGED results
    /\ UNCHANGED <<tables, entry, units>>

\* for m in TXN_RE.finditer(txt): ...   (finditer raises TypeError on None)
PassTxn(r) ==
    /\ pc[r] = "txn"
    /\ IF src[r] = NULL
         THEN /\ pc' = [pc EXCEPT ![r] = "error"]
              /\ UNCHANGED issues
         ELSE /\ issues' = [issues EXCEPT ![r] = RunPass("txn", tables, @, src[r])]
              /\ pc' = [pc EXCEPT ![r] = "func"]
    /\ UNCHANGED <<tables, entry, units, results, src>>

\* if FUNC_RE: for m in FUNC_RE.finditer(txt): ...
PassFunc(r) ==
    /\ pc[r] = "func"
    /\ issues' = [issues EXCEPT ![r] =
                    IF FUNC_NAMES(tables) # {}
                      THEN RunPass("func", tables, @, src[r]) ELSE @]
    /\ pc' = [pc EXCEPT ![r] = "arch47"]
    /\ UNCHANGED <<tables, entry, units, results, src>>

\* for m in ARCH47_RE.finditer(txt): ...
PassArch47(r) ==
    /\ pc[r] = "arch47"
    /\ issues' = [issues EXCEPT ![r] = RunPass("arch47", tables, @, src[r])]
    /\ pc' = [pc EXCEPT ![r] = "arch30"]
    /\ UNCHANGED <<tables, entry, units, results, src>>

\* for m in ARCH30_RE.finditer(txt): ...
PassArch30(r) ==
    /\ pc[r] = "arch30"
    /\ issues' = [issues EXCEPT ![r] = RunPass("arch30", tables, @, src[r])]
    /\ pc' = [pc EXCEPT ![r] = "read"]
    /\ UNCHANGED <<tables, entry, units, results, src>>

\* for m in READ_RE.finditer(txt): ...
PassRead(r) ==
    /\ pc[r] = "read"
    /\ issues' = [issues EXCEPT ![r] = RunPass("read", tables, @, src[r])]
    /\ pc' = [pc EXCEPT ![r] = "ret"]
    /\ UNCHANGED <<tables, entry, units, results, src>>

\* return issues; obj["mb_txn_usage"] = issues; results.append(obj)
Return(r) ==
    /\ pc[r] = "ret"
    /\ results' = [results EXCEPT ![r] = Append(@, issues[r])]
    /\ pc' = [pc EXCEPT ![r] = "loop"]
    /\ UNCHANGED <<tables, entry, units, src, issues>>

\* return results
Finish(r) ==
    /\ pc[r] = "loop"
    /\ Len(results[r]) = Len(units[r])
    /\ pc' = [pc EXCEPT ![r] = "done"]
    /\ UNCHANGED <<tables, entry, units, results, src, issues>>

Next ==
    \E r \in Requests :
        \/ NextUnit(r)
        \/ PassTxn(r)
        \/ PassFunc(r)
        \/ PassArch47(r)
        \/ PassArch30(r)
        \/ PassRead(r)
        \/ Return(r)
        \/ Finish(r)

Spec == Init /\ [][Next]_vars

SpecCalls == InitCalls /\ [][Next]_vars

SpecTables == InitTables /\ [][Next]_vars

-----------------------------------------------------------------------------
(* Properties                                                              *)

\* The scans that have returned: unit i of request r.
Scanned == {ri \in Requests \X (1..MaxTotalUnits) : ri[2] <= Len(results[ri[1]])}

\* The text handed in for a returned scan and the record list it produced.
TextOf(ri) == units[ri[1]][ri[2]]
RecordsOf(ri) == results[ri[1]][ri[2]]

\* needle occurs in hay
Contains(hay, needle) ==
    \E i \in 1..(Len(hay) - Len(needle) + 1) :
        SubSeq(hay, i, i + Len(needle) - 1) = needle

\* The keyword parts of a transaction invocation and of a report submission.
TxnHeads == {h \in Heads : ~MatchLit(h, 1, "CALL FUNCTION")}
SubmitHeads == {h \in Heads : MatchLit(h, 1, "SUBMIT")}

\* C1: a Transaction record is emitted only when the whole identifier token
\* after the keyword equals a deprecated code: an invocation whose token is a
\* deprecated code followed by further word characters (ME21N) yields no
\* Transaction record.
LongerTokenSites ==
    {h \o k \o tl : h \in TxnHeads,
                    k \in {n \in Names : Upper(n) \in DOMAIN TXN_MAP},
                    tl \in {x \in Tails : IsWord(Char(x, 1))}}

C1_ExactTokenOnly ==
    \A ri \in Scanned :
        TextOf(ri) \in LongerTokenSites =>
            \A j \in 1..Len(RecordsOf(ri)) :
                RecordsOf(ri)[j].target_type # "Transaction"

\* C2: no call site is reported by more than one pass: no two records of one
\* scan start at the same offset.
C2_NoDoubleReport ==
    \A ri \in Scanned :
        \A j1, j2 \in 1..Len(RecordsOf(ri)) :
            j1 < j2 => RecordsOf(ri)[j1].start_char_in_unit
                         # RecordsOf(ri)[j2].start_char_in_unit

\* C3: the span of every record lies inside the text, begins with the
\* invocation keyword, contains the identifier and, when the statement has a
\* terminator ".", ends with it: the first "." after the keyword.  Stated for
\* the call sites whose identifier token is not a longer one (those of C1).
C3_SpanIsWholeStatement ==
    \A ri \in Scanned :
        TextOf(ri) \notin LongerTokenSites =>
        \A j \in 1..Len(RecordsOf(ri)) :
            LET rec == RecordsOf(ri)[j]
                b   == rec.start_char_in_unit
                e   == rec.end_char_in_unit
            IN  /\ 0 <= b /\ b < e /\ e <= Len(TextOf(ri))
                /\ \/ MatchLit(TextOf(ri), b + 1, "CALL")
                   \/ MatchLit(TextOf(ri), b + 1, "SUBMIT")
                /\ Contains(Upper(SubSeq(TextOf(ri), b + 1, e)), rec.target_name)
                /\ SkipToDot(TextOf(ri), b + 1) # 0
                      => SkipToDot(TextOf(ri), b + 1) = e + 1

\* C4: a pass whose identifier collection is empty contributes no record:
\* its step leaves the list of the scan as it was.
C4_EmptySetSkipsPass ==
    [][\A r \in Requests :
        /\ (pc[r] = "txn" /\ pc'[r] = "func" /\ DOMAIN tables.TXN_MAP = {})
              => issues'[r] = issues[r]
        /\ (pc[r] = "func" /\ pc'[r] = "arch47" /\ FUNC_NAMES(tables) = {})
              => issues'[r] = issues[r]
        /\ (pc[r] = "arch47" /\ pc'[r] = "arch30"
                /\ DOMAIN tables.ARCHIVE_REPORT_MAP = {})
              => issues'[r] = issues[r]
        /\ (pc[r] = "arch30" /\ pc'[r] = "read"
                /\ tables.ARCHIVE_30_PREFIXES = <<>>)
              => issues'[r] = issues[r]
        /\ (pc[r] = "read" /\ pc'[r] = "ret" /\ tables.READ_REPORTS = {})
              => issues'[r] = issues[r]]_vars

\* The pass a record comes from, read off the record: each pass writes its
\* own target_type, ambiguity and suggestion.
PassOf(rec) ==
    CASE rec.target_type = "Transaction" -> 1
      [] rec.target_type = "FunctionModule" -> 2
      [] rec.target_type = "Report" /\ ~rec.ambiguous -> 3
      [] rec.target_type = "Report" /\ rec.ambiguous
            /\ rec.suggested_statement = "SUBMIT <corresponding RM06**70 report>." -> 4
      [] OTHER -> 5

\* C5: the returned list is the records of the five passes in the fixed pass
\* order, and within one pass in strictly increasing start offset.
C5_PassOrder ==
    \A ri \in Scanned :
        \A j1, j2 \in 1..Len(RecordsOf(ri)) :
            j1 < j2 =>
                LET a == RecordsOf(ri)[j1]
                    b == RecordsOf(ri)[j2]
                IN  \/ PassOf(a) < PassOf(b)
                    \/ /\ PassOf(a) = PassOf(b)
                       /\ a.start_char_in_unit < b.start_char_in_unit

\* A record of a later pass follows a record of an earlier pass although its
\* span lies earlier in the text.
C5_LaterPassEarlierInText ==
    \E ri \in Scanned :
        \E j1, j2 \in 1..Len(RecordsOf(ri)) :
            /\ j1 < j2
            /\ PassOf(RecordsOf(ri)[j1]) < PassOf(RecordsOf(ri)[j2])
            /\ RecordsOf(ri)[j1].start_char_in_unit
                  > RecordsOf(ri)[j2].start_char_in_unit

\* A replacement code rendered in the keyword form of the call site.
Rendered(h, n) ==
    IF h \in SubmitHeads THEN "SUBMIT " \o n \o "."
    ELSE "CALL TRANSACTION '" \o n \o "'."

\* The terminated call sites of identifier k: keyword, k, terminator.
MinimalTails == {".", "'.", " ."}

\* C6: a minimal invocation of a key k of TXN_MAP yields exactly one record,
\* a Transaction named k, ambiguous exactly when k has several replacements,
\* whose suggestion is the replacements of k, each rendered in the matched
\* keyword form, joined by " or ".
C6_MinimalTxnInvocation ==
    \A ri \in Scanned : \A h \in TxnHeads : \A k \in DOMAIN TXN_MAP :
        \A tl \in MinimalTails :
            TextOf(ri) = h \o k \o tl =>
                /\ Len(RecordsOf(ri)) = 1
                /\ LET rec == RecordsOf(ri)[1]
                       news == TXN_MAP[k]
                   IN  /\ rec.target_type = "Transaction"
                       /\ rec.target_name = k
                       /\ rec.ambiguous = (Len(news) > 1)
                       /\ \A i \in 1..Len(news) :
                            Contains(rec.suggested_statement, Rendered(h, news[i]))
                       /\ rec.suggested_statement =
                            IF Len(news) = 1 THEN Rendered(h, news[1])
                            ELSE Rendered(h, news[1]) \o " or " \o Rendered(h, news[2])

\* A SUBMIT of ME24 has been scanned and reported as ambiguous.
C6_AmbiguousTxnReported ==
    \E ri \in Scanned :
        /\ TextOf(ri) = "SUBMIT ME24."
        /\ Len(RecordsOf(ri)) = 1
        /\ RecordsOf(ri)[1].ambiguous
        /\ RecordsOf(ri)[1].suggested_statement = "SUBMIT ME21N. or SUBMIT ME22N."

\* C7: a terminated CALL FUNCTION of a key k of BAPI_MAP or IDOC_MAP yields
\* one FunctionModule record whose suggestion is a CALL FUNCTION of the
\* replacement of k; it is ambiguous exactly when the replacement is k itself,
\* which is the case for IDOC_INPUT_PORDCH only.
C7_FunctionModuleAmbiguity ==
    \A ri \in Scanned : \A k \in DOMAIN BAPI_MAP \cup DOMAIN IDOC_MAP :
        \A tl \in {"'.", "' EXPORTING a = b."} :
            TextOf(ri) = "CALL FUNCTION '" \o k \o tl =>
                /\ Len(RecordsOf(ri)) = 1
                /\ LET rec == RecordsOf(ri)[1]
                       new == IF k \in DOMAIN BAPI_MAP
                                THEN BAPI_MAP[k].new ELSE IDOC_MAP[k].new
                   IN  /\ rec.target_type = "FunctionModule"
                       /\ rec.target_name = k
                       /\ rec.suggested_statement = "CALL FUNCTION '" \o new \o "'."
                       /\ rec.ambiguous = (new = k)
                       /\ rec.ambiguous = (k = "IDOC_INPUT_PORDCH")

\* A CALL FUNCTION of IDOC_INPUT_PORDCH has been scanned and flagged.
C7_UnchangedNameFlagged ==
    \E ri \in Scanned :
        /\ TextOf(ri) = "CALL FUNCTION 'IDOC_INPUT_PORDCH' EXPORTING a = b."
        /\ Len(RecordsOf(ri)) = 1
        /\ RecordsOf(ri)[1].ambiguous
        /\ RecordsOf(ri)[1].suggested_statement = "CALL FUNCTION 'IDOC_INPUT_PORDCH'."

\* C8: a terminated SUBMIT of a key k of ARCHIVE_REPORT_MAP yields a Report
\* record named k, not ambiguous, whose suggestion is a SUBMIT of k with the
\* suffix 47 replaced by 70 and whose note names the archiving object of k.
C8_ArchiveReportReplacement ==
    \A ri \in Scanned : \A h \in SubmitHeads : \A k \in DOMAIN ARCHIVE_REPORT_MAP :
        \A tl \in {".", " .", " WITH p = 1 AND RETURN."} :
            TextOf(ri) = h \o k \o tl =>
                \E j \in 1..Len(RecordsOf(ri)) :
                    LET rec == RecordsOf(ri)[j]
                    IN  /\ rec.target_type = "Report"
                        /\ rec.target_name = k
                        /\ rec.ambiguous = FALSE
                        /\ rec.suggested_statement =
                              "SUBMIT " \o SubSeq(k, 1, Len(k) - 2) \o "70" \o "."
                        /\ "note" \in DOMAIN rec
                        /\ Contains(rec.note, ARCHIVE_REPORT_MAP[k].obj)
                        /\ ARCHIVE_REPORT_MAP[k].obj =
                              (CASE SubSeq(k, 5, 5) = "E" -> "MM_EKKO"
                                 [] SubSeq(k, 5, 5) = "B" -> "MM_EBAN"
                                 [] SubSeq(k, 5, 5) = "I" -> "MM_EINA")

\* A SUBMIT of RM06BW47 has been scanned and redirected to RM06BW70.
C8_ArchiveReportReported ==
    \E ri \in Scanned :
        /\ TextOf(ri) = "SUBMIT RM06BW47 WITH p = 1 AND RETURN."
        /\ \E j \in 1..Len(RecordsOf(ri)) :
              /\ RecordsOf(ri)[j].suggested_statement = "SUBMIT RM06BW70."
              /\ Contains(RecordsOf(ri)[j].note, "MM_EBAN")

\* C9: the record list of a scan depends only on its text: two scans of the
\* same text return the same list, whatever ran before or in between; no step
\* changes the reference tables or a list that was already returned.
C9_ResultDependsOnTextOnly ==
    /\ [](/\ tables = SourceTables
          /\ \A ri, rj \in Scanned :
                TextOf(ri) = TextOf(rj) => RecordsOf(ri) = RecordsOf(rj))
    /\ [][/\ tables' = tables
          /\ \A r \in Requests : \A i \in 1..Len(results[r]) :
                /\ i <= Len(results'[r])
                /\ results'[r][i] = results[r][i]]_vars

\* The same text with findings has been scanned twice.
C9_SameTextScannedTwice ==
    \E ri, rj \in Scanned :
        /\ ri # rj
        /\ TextOf(ri) = TextOf(rj)
        /\ RecordsOf(ri) # <<>>
        /\ RecordsOf(ri) = RecordsOf(rj)

\* C10: a null or empty text yields an empty record list and no failure, for
\* a unit of the endpoint and for a direct call of the scan.
C10_EmptyTextEmptyList ==
    /\ \A r \in Requests : pc[r] # "error"
    /\ \A ri \in Scanned :
          TextOf(ri) \in {NULL, ""} => RecordsOf(ri) = <<>>
    /\ \A r \in Requests :
          (/\ Len(results[r]) < Len(units[r])
           /\ units[r][Len(results[r]) + 1] \in {NULL, ""}) => pc[r] = "loop"

\* A direct call with a null text has returned the empty list.
C10_NullScanned ==
    \E ri \in Scanned :
        /\ TextOf(ri) = NULL
        /\ entry[ri[1]] = "find"
        /\ RecordsOf(ri) = <<>>
        /\ pc[ri[1]] = "done"

====
